---- MODULE Spec2Model ----
(***************************************************************************)
(* Event Management API (main.py): four entity collections with            *)
(* create / list / get / update / delete handlers, a media collection      *)
(* with upload / latest handlers, and the injection-protection middleware  *)
(* that runs in front of every handler.                                    *)
(*                                                                         *)
(* One action is one HTTP request, taken through the middleware, the       *)
(* schema binding of the handler's parameters and the handler's single     *)
(* database call.  Each handler awaits exactly one database operation, so  *)
(* concurrent requests interleave as whole actions.                        *)
(***************************************************************************)
EXTENDS Integers, Sequences, FiniteSets, TLC

VARIABLES
    store,      \* db.events, db.attendees, db.venues, db.booking: documents in natural order
    media,      \* db.media: documents in natural (insertion) order
    nextOid,    \* number of ObjectIds the driver has generated so far
    clock,      \* the wall clock datetime.utcnow() reads, in stored (BSON) resolution
    last,       \* the last request and the response it got
    written,    \* history: id string -> the body last written to the stored document by create/update
    deleted     \* history: <<collection, ObjectId>> of every successful delete

vars == <<store, media, nextOid, clock, last, written, deleted>>

-----------------------------------------------------------------------------
(* Text.  A Python str is a sequence of one-character strings.             *)

LowerLetters == <<"a","b","c","d","e","f","g","h","i","j","k","l","m",
                  "n","o","p","q","r","s","t","u","v","w","x","y","z">>

UpperLetters == <<"A","B","C","D","E","F","G","H","I","J","K","L","M",
                  "N","O","P","Q","R","S","T","U","V","W","X","Y","Z">>

DigitChars == <<"0","1","2","3","4","5","6","7","8","9">>

Range(f) == {f[i] : i \in DOMAIN f}

WordChars == Range(LowerLetters) \cup Range(UpperLetters) \cup Range(DigitChars) \cup {"_"}

Digits == Range(DigitChars)

\* regex \w, \d and \s on the characters of the model
IsWord(c) == c \in WordChars

IsDigit(c) == c \in Digits

IsSpace(c) == c \in {" ", "\t", "\n", "\r"}

\* re.IGNORECASE: letters compare by their upper-case form
UpperTable == [c \in Range(LowerLetters) |->
                  UpperLetters[CHOOSE i \in DOMAIN LowerLetters : LowerLetters[i] = c]]

upper(c) == IF c \in DOMAIN UpperTable THEN UpperTable[c] ELSE c

\* lit occurs in s at index i
StartsAt(s, i, lit) ==
    /\ i >= 1
    /\ i + Len(lit) - 1 <= Len(s)
    /\ \A j \in 1..Len(lit) : s[i + j - 1] = lit[j]

\* Python's  sub in s
Contains(s, sub) == \E i \in 1..(Len(s) + 1) : StartsAt(s, i, sub)

\* Python's  s.startswith(prefix)
\* a test that finds the prefix anywhere in s
startswith_anywhere(s, prefix) == Contains(s, prefix)

startswith(s, prefix) == StartsAt(s, 1, prefix)

-----------------------------------------------------------------------------
(* JSON values as json.loads returns them, tagged with their Python type:  *)
(* dict (keys are str), list, str, int, None.                              *)

JStr(s)   == [t |-> "str",  v |-> s]
JInt(n)   == [t |-> "int",  v |-> n]
JNull     == [t |-> "null", v |-> 0]
JDict(f)  == [t |-> "dict", v |-> f]
JList(sq) == [t |-> "list", v |-> sq]

\* a function given as a set of <<key, value>> pairs with distinct keys
FromPairs(ps) == [k \in {p[1] : p \in ps} |-> (CHOOSE p \in ps : p[1] = k)[2]]

\* Python's  {**f, **g}: g's entries win
Merge(f, g) ==
    [k \in (DOMAIN f) \cup (DOMAIN g) |-> IF k \in DOMAIN g THEN g[k] ELSE f[k]]

-----------------------------------------------------------------------------
(* BLOCK_PATTERN, scan_for_injection, sanitize_payload (main.py 39-58).    *)

\* the single-character alternatives  \$ \{ \} \[ \] ;
BlockChars == {"$", "{", "}", "[", "]", ";"}

\* the two-character alternatives  --  /\*  \*/
BlockPairs == {<<"-", "-">>, <<"/", "*">>, <<"*", "/">>}

\* the alternative  \b(OR|AND)\b\s+\d=\d  matching at index i.  The \b after
\* the word holds whenever \s+ matches there: a space is not a word character.
TokenAt(s, i) ==
    \E w \in {<<"O", "R">>, <<"A", "N", "D">>} :
        LET j == i + Len(w) IN
        /\ j - 1 <= Len(s)
        /\ [k \in 1..Len(w) |-> upper(s[i + k - 1])] = w
        /\ (i = 1 \/ ~IsWord(s[i - 1]))
        /\ \E e \in j..Len(s) :
              /\ \A k \in j..e : IsSpace(s[k])
              /\ e + 3 <= Len(s)
              /\ IsDigit(s[e + 1])
              /\ s[e + 2] = "="
              /\ IsDigit(s[e + 3])

\* BLOCK_PATTERN.search(s) finds a match
\* a pattern that knows the single characters only
BLOCK_PATTERN_chars_only(s) == \E i \in 1..Len(s) : s[i] \in BlockChars

BLOCK_PATTERN(s) ==
    \E i \in 1..Len(s) :
        \/ s[i] \in BlockChars
        \/ \E p \in BlockPairs : StartsAt(s, i, p)
        \/ TokenAt(s, i)

\* TRUE iff scan_for_injection(value) raises HTTPException(400)
scan_for_injection(value) == value # <<>> /\ BLOCK_PATTERN(value)

\* a key test that forgets the dot
BadKey_dollar_only(k) == Contains(k, <<"$">>)

\* the key test of sanitize_payload:  "$" in k or "." in k
BadKey(k) == Contains(k, <<"$">>) \/ Contains(k, <<".">>)

\* TRUE iff sanitize_payload(obj) raises HTTPException(400)
RECURSIVE sanitize_payload(_)
sanitize_payload(obj) ==
    IF obj.t = "dict"
    THEN \E k \in DOMAIN obj.v : BadKey(k) \/ sanitize_payload(obj.v[k])
    ELSE IF obj.t = "list"
    THEN \E i \in DOMAIN obj.v : sanitize_payload(obj.v[i])
    ELSE IF obj.t = "str"
    THEN scan_for_injection(obj.v)
    ELSE FALSE

-----------------------------------------------------------------------------
(* ObjectId: 12 bytes; str() renders 24 lower-case hex digits and          *)
(* ObjectId(str) parses 24 hex digits of either case (main.py 84-93).      *)

HexDigits == <<"0","1","2","3","4","5","6","7","8","9","a","b","c","d","e","f">>

\* the hex digits of either case with their values
HexTable ==
    [c \in Range(HexDigits) \cup {upper(d) : d \in Range(HexDigits)} |->
        (CHOOSE i \in DOMAIN HexDigits : HexDigits[i] = c \/ upper(HexDigits[i]) = c) - 1]

\* the value of hex digit c, -1 when c is none
HexVal(c) == IF c \in DOMAIN HexTable THEN HexTable[c] ELSE -1

\* the machine/time part of the ObjectIds this process generates
OidPrefix == <<101, 67, 171, 205, 14, 250, 9, 188, 122>>

\* the n-th ObjectId the driver generates: prefix and a 3-byte counter
NewOid(n) == OidPrefix \o <<(n \div 65536) % 256, (n \div 256) % 256, n % 256>>

\* str(ObjectId)
str(o) ==
    [i \in 1..(2 * Len(o)) |->
        IF i % 2 = 1 THEN HexDigits[(o[(i + 1) \div 2] \div 16) + 1]
                     ELSE HexDigits[(o[i \div 2] % 16) + 1]]

\* a validity test that forgets the length
ObjectIdValid_any_length(id_str) == \A i \in 1..Len(id_str) : HexVal(id_str[i]) >= 0

\* ObjectId(id_str) does not raise
ObjectIdValid(id_str) ==
    /\ Len(id_str) = 24
    /\ \A i \in 1..Len(id_str) : HexVal(id_str[i]) >= 0

\* ObjectId(id_str), for a valid id_str
ObjectId(id_str) ==
    [i \in 1..(Len(id_str) \div 2) |-> 16 * HexVal(id_str[2 * i - 1]) + HexVal(id_str[2 * i])]

\* oid(id_str): the ObjectId, or the 400 it raises
oid(id_str) ==
    IF ObjectIdValid(id_str)
    THEN [ok |-> TRUE, value |-> ObjectId(id_str)]
    ELSE [ok |-> FALSE, value |-> <<>>]

-----------------------------------------------------------------------------
(* Field names, the four models (main.py 103-127) and their binding.       *)

k_id            == <<"_","i","d">>
k_name          == <<"n","a","m","e">>
k_description   == <<"d","e","s","c","r","i","p","t","i","o","n">>
k_date          == <<"d","a","t","e">>
k_venue_id      == <<"v","e","n","u","e","_","i","d">>
k_max_attendees == <<"m","a","x","_","a","t","t","e","n","d","e","e","s">>
k_email         == <<"e","m","a","i","l">>
k_phone         == <<"p","h","o","n","e">>
k_address       == <<"a","d","d","r","e","s","s">>
k_capacity      == <<"c","a","p","a","c","i","t","y">>
k_event_id      == <<"e","v","e","n","t","_","i","d">>
k_attendee_id   == <<"a","t","t","e","n","d","e","e","_","i","d">>
k_ticket_type   == <<"t","i","c","k","e","t","_","t","y","p","e">>
k_quantity      == <<"q","u","a","n","t","i","t","y">>

Required(type) == [type |-> type, optional |-> FALSE]
Optional(type) == [type |-> type, optional |-> TRUE]

Event ==
    FromPairs({<<k_name, Required("str")>>, <<k_description, Required("str")>>,
               <<k_date, Required("str")>>, <<k_venue_id, Required("str")>>,
               <<k_max_attendees, Required("int")>>})

Attendee ==
    FromPairs({<<k_name, Required("str")>>, <<k_email, Required("str")>>,
               <<k_phone, Optional("str")>>})

Venue ==
    FromPairs({<<k_name, Required("str")>>, <<k_address, Required("str")>>,
               <<k_capacity, Required("int")>>})

Booking ==
    FromPairs({<<k_event_id, Required("str")>>, <<k_attendee_id, Required("str")>>,
               <<k_ticket_type, Required("str")>>, <<k_quantity, Required("int")>>})

Collections == {"events", "attendees", "venues", "booking"}

Schema == [events |-> Event, attendees |-> Attendee, venues |-> Venue, booking |-> Booking]

application_json == <<"a","p","p","l","i","c","a","t","i","o","n","/","j","s","o","n">>

\* the handler's body parameter binds: the body is read as JSON, is an object,
\* holds every required field, and every field it holds has the field's type
\* (None is allowed for an Optional field).  Undeclared keys are ignored.
Binds(schema, req) ==
    /\ Contains(req.content_type, application_json)
    /\ req.body.raw = "json"
    /\ req.body.json.t = "dict"
    /\ \A f \in DOMAIN schema :
          IF f \in DOMAIN req.body.json.v
          THEN \/ req.body.json.v[f].t = schema[f].type
               \/ schema[f].optional /\ req.body.json.v[f].t = "null"
          ELSE schema[f].optional

\* model_dump(exclude_none=True): the fields the payload sets
model_dump_exclude_none(schema, payload) ==
    [f \in {g \in DOMAIN schema : g \in DOMAIN payload.v /\ payload.v[g].t # "null"} |-> payload.v[f]]

\* model_dump() of a model with extra="allow": undeclared keys are kept
model_dump_extra_allow(schema, payload) ==
    [f \in (DOMAIN schema) \cup (DOMAIN payload.v) |->
        IF f \in DOMAIN payload.v THEN payload.v[f] ELSE JNull]

\* model.model_dump(): exactly the declared fields, None for an omitted Optional
model_dump(schema, payload) ==
    [f \in DOMAIN schema |-> IF f \in DOMAIN payload.v THEN payload.v[f] ELSE JNull]

-----------------------------------------------------------------------------
(* The middleware (main.py 60-77).                                         *)

\* TRUE iff injection_protection_middleware raises HTTPException(400)
\* instead of calling call_next
injection_protection_middleware(req) ==
    /\ req.method \in {"POST", "PUT", "PATCH"}
    /\ Contains(req.content_type, application_json)
    /\ req.body.raw # "empty"
    /\ req.body.raw = "json"
    /\ sanitize_payload(req.body.json)

-----------------------------------------------------------------------------
(* The collection operations the handlers call.                            *)

JOid(o) == [t |-> "oid", v |-> o]

\* Python's str() of an _id value: the hex form of an ObjectId, a str as it is
str_id(x) == IF x.t = "oid" THEN str(x.v) ELSE x.v

\* index of the first document of coll whose _id is o, 0 when there is none
Find(coll, o) ==
    IF \E i \in DOMAIN coll : coll[i][k_id] = JOid(o)
    THEN CHOOSE i \in DOMAIN coll :
            /\ coll[i][k_id] = JOid(o)
            /\ \A j \in 1..(i - 1) : coll[j][k_id] # JOid(o)
    ELSE 0

\* insert_one(doc): the driver adds a generated _id unless doc carries one
insert_one(coll, doc, n) ==
    Append(coll, IF k_id \in DOMAIN doc THEN doc ELSE Merge(doc, FromPairs({<<k_id, JOid(NewOid(n))>>})))

\* update_one({"_id": o}, {"$set": fields}) on a collection that holds o at index i
update_one(coll, i, fields) == [coll EXCEPT ![i] = Merge(@, fields)]

\* a delete that acknowledges and removes nothing
delete_one_nothing(coll, i) == coll

\* delete_one({"_id": o}) on a collection that holds o at index i
delete_one(coll, i) == SubSeq(coll, 1, i - 1) \o SubSeq(coll, i + 1, Len(coll))

\* to_json that leaves the ObjectId as it is
to_json_raw_id(doc) == JDict(doc)

\* to_json(doc): the _id replaced by its string
to_json(doc) == JDict([doc EXCEPT ![k_id] = JStr(str_id(@))])

\* a to_list that ignores its length
to_list_all(coll, length) == coll

\* find().to_list(length): the first length documents in natural order
to_list(coll, length) == SubSeq(coll, 1, IF Len(coll) < length THEN Len(coll) ELSE length)

ListCap == 100

-----------------------------------------------------------------------------
(* Requests and responses.                                                 *)

EmptyBody == [raw |-> "empty", json |-> JNull]

JsonBody(payload) == [raw |-> "json", json |-> payload]

\* a request without a body (GET, DELETE)
Bare(method) == [method |-> method, content_type |-> <<>>, body |-> EmptyBody]

JsonRequest(method, content_type, payload) ==
    [method |-> method, content_type |-> content_type, body |-> JsonBody(payload)]

\* the response recorded in last; reached says whether the route handler ran
Respond(op, c, id, req, status, body, reached) ==
    last' = [op |-> op, coll |-> c, id |-> id, req |-> req,
             status |-> status, body |-> body, reached |-> reached]

Record(id, c, payload, via) ==
    written' = Merge(written, FromPairs({<<id, [coll |-> c, payload |-> payload, via |-> via]>>}))

-----------------------------------------------------------------------------
(* The requests the entity specification draws from.                       *)

MaxOids == 2

\* a schema-valid entity: every str field s, every int field n
Sample(c, s, n) ==
    JDict([f \in DOMAIN Schema[c] |-> IF Schema[c][f].type = "str" THEN JStr(s) ELSE JInt(n)])

Without(d, keys) == JDict([f \in (DOMAIN d.v) \ keys |-> d.v[f]])

With(d, k, v) == JDict(Merge(d.v, FromPairs({<<k, v>>})))

OptionalFields(c) == {f \in DOMAIN Schema[c] : Schema[c][f].optional}

EntityA(c) == Sample(c, <<"a">>, 1)
EntityB(c) == Sample(c, <<"b">>, 2)

\* a body the middleware rejects: a query-operator key
OperatorKeyed(c) == With(EntityA(c), <<"$","g","t">>, JInt(1))

\* POST bodies: an entity, one with the Optional fields omitted, a rejected one
PostPayloads(c) ==
    {EntityA(c), Without(EntityB(c), OptionalFields(c)), OperatorKeyed(c)}

\* PUT bodies: an entity that also carries an _id, one with the Optional
\* fields omitted, one that misses the required fields
PutPayloads(c) ==
    {With(EntityB(c), k_id, JStr(str(NewOid(MaxOids + 1)))),
     Without(EntityA(c), OptionalFields(c)),
     Without(EntityA(c), (DOMAIN Schema[c]) \ OptionalFields(c))}

CrudRequests ==
    [c \in Collections |->
        [POST |-> {JsonRequest("POST", application_json, p) : p \in PostPayloads(c)},
         PUT  |-> {JsonRequest("PUT", application_json, p) : p \in PutPayloads(c)}]]

UpperCase(s) == [i \in DOMAIN s |-> upper(s[i])]

MalformedIds ==
    { <<"n","o","t","-","a","-","v","a","l","i","d","-","i","d">>,
      SubSeq(str(NewOid(1)), 1, 23),
      [str(NewOid(1)) EXCEPT ![24] = "g"] }

\* ids of the ObjectIds the run can generate and one more that it never does
WellFormedIds == {str(NewOid(n)) : n \in 1..(MaxOids + 1)}

\* the ids GET requests carry: also an upper-case spelling and malformed ones
CrudIds == WellFormedIds \cup {UpperCase(str(NewOid(1)))} \cup MalformedIds

\* the ids PUT and DELETE requests carry
WriteIds == WellFormedIds \cup {SubSeq(str(NewOid(1)), 1, 23)}

\* how far past the list cap the list specification fills a collection
MaxOver == 1

\* the ids the list specification deletes: the first and the ListCap-th created
ListIds == {str(NewOid(1)), str(NewOid(ListCap))}

-----------------------------------------------------------------------------
(* The uploads the media specification draws from.                         *)

MaxMedia == 2

MaxClock == 1

multipart_form_data ==
    <<"m","u","l","t","i","p","a","r","t","/","f","o","r","m","-","d","a","t","a">>

image_png   == <<"i","m","a","g","e","/","p","n","g">>
video_mp4   == <<"v","i","d","e","o","/","m","p","4">>
text_plain  == <<"t","e","x","t","/","p","l","a","i","n">>
x_image_png == <<"x","-","i","m","a","g","e","/","p","n","g">>
x_video_mp4 == <<"x","-","v","i","d","e","o","/","m","p","4">>

\* an UploadFile: filename, declared content type (None when the part has none), bytes
UploadFile(filename, content_type, content) ==
    [filename |-> filename, content_type |-> content_type, content |-> content]

Files ==
    {UploadFile("f1", ct, <<1>>) :
        ct \in {JNull, JStr(<<>>), JStr(image_png), JStr(video_mp4), JStr(text_plain),
                JStr(x_image_png), JStr(x_video_mp4)}}
    \cup {UploadFile("f2", JStr(image_png), <<2>>), UploadFile("f2", JStr(video_mp4), <<2>>)}

\* a POST that carries file as its multipart body
MultipartRequest(file) ==
    [method |-> "POST", content_type |-> multipart_form_data,
     body |-> [raw |-> "form", json |-> JNull, file |-> file]]

\* the owner ids upload and read paths carry (any text: they are never decoded)
OwnerIds == {<<"1">>, <<"2">>}

-----------------------------------------------------------------------------
(* The JSON requests the middleware specification draws from: a text placed *)
(* as a value or as a key, at the top of the body or nested in lists and    *)
(* objects.                                                                 *)

MaxStrLen == 2

MaxDepth == 2

\* the characters the blacklist names, the dot, and one harmless letter
GuardAlphabet == {"a", "$", ".", "{", "}", "[", "]", ";", "-", "/", "*"}

TextsUpTo(n) == UNION {[1..k -> GuardAlphabet] : k \in 0..n}

\* texts around the OR/AND token of the pattern
TokenTexts ==
    { <<"O","R"," ","1","=","1">>,
      <<"o","r"," ","1","=","1">>,
      <<"x","O","R"," ","1","=","1">>,
      <<"a"," ","A","n","d"," ","\t","2","=","3","a">>,
      <<"O","R","1","=","1">>,
      <<"O","R"," ","1","=","a">>,
      <<"O","R"," ","a","=","1">>,
      <<"S","u","m","m","e","r"," ","F","e","s","t">> }

ProbeTexts == TextsUpTo(MaxStrLen) \cup TokenTexts

\* the nestings: lists and objects alternating, to MaxDepth levels
Nestings ==
    UNION {{[i \in 1..d |-> IF i % 2 = 1 THEN "list" ELSE "dict"],
            [i \in 1..d |-> IF i % 2 = 1 THEN "dict" ELSE "list"]} : d \in 0..MaxDepth}

RECURSIVE Nest(_, _)
Nest(w, leaf) ==
    IF w = <<>> THEN leaf
    ELSE IF Head(w) = "list" THEN JList(<<JInt(1), Nest(Tail(w), leaf)>>)
    ELSE JDict(FromPairs({<<<<"k">>, Nest(Tail(w), leaf)>>}))

\* bodies that are no entity: the text as a value or as a key, nested
ProbePayloads ==
    {Nest(w, leaf) : w \in Nestings,
                     leaf \in UNION {{JStr(x), JDict(FromPairs({<<x, JInt(1)>>}))} : x \in ProbeTexts}}

\* bodies that are an event: the text as its name, as an undeclared key, or
\* nested under an undeclared key
EventPayloads ==
    UNION {{With(EntityA("events"), k_name, JStr(x)),
            With(EntityA("events"), x, JInt(1)),
            With(EntityA("events"), <<"x">>, JList(<<JDict(FromPairs({<<x, JStr(x)>>}))>>))}
           : x \in TextsUpTo(1) \cup TokenTexts}

application_json_utf8 == application_json \o <<";"," ","c","h","a","r","s","e","t","=","u","t","f","-","8">>

GuardRequests ==
    {JsonRequest(m, application_json, p) :
        m \in {"POST", "PUT", "PATCH"}, p \in ProbePayloads \cup EventPayloads}
    \cup {JsonRequest(m, ct, p) :
            m \in {"POST", "PUT"}, ct \in {application_json_utf8, text_plain},
            p \in {With(EntityA("events"), k_name, JStr(x)) : x \in {<<"a">>, <<"$">>}}}
    \cup {[method |-> m, content_type |-> application_json, body |-> b] :
            m \in {"POST", "PUT"},
            b \in {EmptyBody, [raw |-> "invalid", json |-> JNull]}}

\* the requests of the entity and media routes
RouteRequests ==
    UNION {CrudRequests[c][m] : c \in Collections, m \in {"POST", "PUT"}}
    \cup {MultipartRequest(f) : f \in Files}
    \cup {Bare("GET"), Bare("DELETE")}

\* the middleware's verdict and the binding's, tabulated over RouteRequests
BlockedTable == [req \in RouteRequests |-> injection_protection_middleware(req)]

BoundTable == [c \in Collections |-> [req \in RouteRequests |-> Binds(Schema[c], req)]]

DumpedTable ==
    [c \in Collections |->
        [req \in {r \in RouteRequests : Binds(Schema[c], r)} |-> model_dump(Schema[c], req.body.json)]]

\* TRUE iff the middleware answers req with 400
Blocked(req) ==
    IF req \in RouteRequests THEN BlockedTable[req] ELSE injection_protection_middleware(req)

\* TRUE iff the body of req binds to the model of collection c
Bound(c, req) ==
    IF req \in RouteRequests THEN BoundTable[c][req] ELSE Binds(Schema[c], req)

\* the bound model's model_dump(), for a request that binds
Dumped(c, req) ==
    IF req \in RouteRequests THEN DumpedTable[c][req] ELSE model_dump(Schema[c], req.body.json)

\* every id a specification puts in a path, with what oid() makes of it
AllIds == CrudIds \cup WriteIds \cup ListIds

Parsed == [id_str \in AllIds |-> oid(id_str)]

-----------------------------------------------------------------------------
(* The entity handlers (main.py 130-263), one definition per route below.  *)

\* POST /<c>
Create(c, req) ==
    IF Blocked(req)
    THEN /\ Respond("create", c, <<>>, req, 400, JNull, FALSE)
         /\ UNCHANGED <<store, media, nextOid, clock, written, deleted>>
    ELSE IF ~Bound(c, req)
    THEN /\ Respond("create", c, <<>>, req, 422, JNull, FALSE)
         /\ UNCHANGED <<store, media, nextOid, clock, written, deleted>>
    ELSE LET coll == insert_one(store[c], Dumped(c, req), nextOid + 1)
             inserted_id == str_id(coll[Len(coll)][k_id])
         IN  /\ store' = [store EXCEPT ![c] = coll]
             /\ nextOid' = nextOid + 1
             /\ Respond("create", c, <<>>, req, 200,
                        JDict(FromPairs({<<k_id, JStr(inserted_id)>>})), TRUE)
             /\ Record(inserted_id, c, req.body.json, "create")
             /\ UNCHANGED <<media, clock, deleted>>

\* GET /<c>
List(c) ==
    /\ ~Blocked(Bare("GET"))
    /\ Respond("list", c, <<>>, Bare("GET"), 200,
               JList([i \in DOMAIN to_list(store[c], ListCap) |-> to_json(to_list(store[c], ListCap)[i])]),
               TRUE)
    /\ UNCHANGED <<store, media, nextOid, clock, written, deleted>>

\* GET /<c>/{id}: get_or_404 then to_json
Get(c, id_str) ==
    /\ ~Blocked(Bare("GET"))
    /\ LET o == Parsed[id_str]
           i == IF o.ok THEN Find(store[c], o.value) ELSE 0
       IN  IF ~o.ok
           THEN Respond("get", c, id_str, Bare("GET"), 400, JNull, TRUE)
           ELSE IF i = 0
           THEN Respond("get", c, id_str, Bare("GET"), 404, JNull, TRUE)
           ELSE Respond("get", c, id_str, Bare("GET"), 200, to_json(store[c][i]), TRUE)
    /\ UNCHANGED <<store, media, nextOid, clock, written, deleted>>

\* PUT /<c>/{id}
Update(c, id_str, req) ==
    IF Blocked(req)
    THEN /\ Respond("update", c, id_str, req, 400, JNull, FALSE)
         /\ UNCHANGED <<store, media, nextOid, clock, written, deleted>>
    ELSE IF ~Bound(c, req)
    THEN /\ Respond("update", c, id_str, req, 422, JNull, FALSE)
         /\ UNCHANGED <<store, media, nextOid, clock, written, deleted>>
    ELSE LET o == Parsed[id_str]
             i == IF o.ok THEN Find(store[c], o.value) ELSE 0
         IN  IF ~o.ok
             THEN /\ Respond("update", c, id_str, req, 400, JNull, TRUE)
                  /\ UNCHANGED <<store, media, nextOid, clock, written, deleted>>
             ELSE IF i = 0
             THEN /\ Respond("update", c, id_str, req, 404, JNull, TRUE)
                  /\ UNCHANGED <<store, media, nextOid, clock, written, deleted>>
             ELSE /\ store' = [store EXCEPT ![c] =
                                  update_one(@, i, Dumped(c, req))]
                  /\ Respond("update", c, id_str, req, 200, JNull, TRUE)
                  /\ Record(str(o.value), c, req.body.json, "update")
                  /\ UNCHANGED <<media, nextOid, clock, deleted>>

\* DELETE /<c>/{id}
Delete(c, id_str) ==
    LET o == Parsed[id_str]
        i == IF o.ok THEN Find(store[c], o.value) ELSE 0
    IN  IF Blocked(Bare("DELETE"))
        THEN /\ Respond("delete", c, id_str, Bare("DELETE"), 400, JNull, FALSE)
             /\ UNCHANGED <<store, media, nextOid, clock, written, deleted>>
        ELSE IF ~o.ok
        THEN /\ Respond("delete", c, id_str, Bare("DELETE"), 400, JNull, TRUE)
             /\ UNCHANGED <<store, media, nextOid, clock, written, deleted>>
        ELSE IF i = 0
        THEN /\ Respond("delete", c, id_str, Bare("DELETE"), 404, JNull, TRUE)
             /\ UNCHANGED <<store, media, nextOid, clock, written, deleted>>
        ELSE /\ store' = [store EXCEPT ![c] = delete_one(@, i)]
             /\ deleted' = deleted \cup {<<c, o.value>>}
             /\ written' = [k \in (DOMAIN written) \ {str(o.value)} |-> written[k]]
             /\ Respond("delete", c, id_str, Bare("DELETE"), 200, JNull, TRUE)
             /\ UNCHANGED <<media, nextOid, clock>>

\* PATCH on a path: no route declares the method, so the router answers 405
\* when the middleware lets the request through
NoRoute(c, id_str, req) ==
    /\ IF Blocked(req)
       THEN Respond("patch", c, id_str, req, 400, JNull, FALSE)
       ELSE Respond("patch", c, id_str, req, 405, JNull, FALSE)
    /\ UNCHANGED <<store, media, nextOid, clock, written, deleted>>

create_event(req)               == Create("events", req)
list_events                     == List("events")
get_event(event_id)             == Get("events", event_id)
update_event(event_id, req)     == Update("events", event_id, req)
delete_event(event_id)          == Delete("events", event_id)

create_attendee(req)              == Create("attendees", req)
list_attendees                    == List("attendees")
get_attendee(attendee_id)         == Get("attendees", attendee_id)
update_attendee(attendee_id, req) == Update("attendees", attendee_id, req)
delete_attendee(attendee_id)      == Delete("attendees", attendee_id)

create_venue(req)               == Create("venues", req)
list_venues                     == List("venues")
get_venue(venue_id)             == Get("venues", venue_id)
update_venue(venue_id, req)     == Update("venues", venue_id, req)
delete_venue(venue_id)          == Delete("venues", venue_id)

create_booking(req)               == Create("booking", req)
list_bookings                     == List("booking")
get_booking(booking_id)           == Get("booking", booking_id)
update_booking(booking_id, req)   == Update("booking", booking_id, req)
delete_booking(booking_id)        == Delete("booking", booking_id)

-----------------------------------------------------------------------------
(* The media handlers (main.py 266-328).                                   *)

\* the documents of db.media that match {link_field: link_id, "media_type": media_type}
Matching(link_field, link_id, media_type) ==
    {i \in DOMAIN media :
        /\ link_field \in DOMAIN media[i]
        /\ media[i][link_field] = link_id
        /\ media[i].media_type = media_type}

\* upload_media: one insert_one of the file with the time utcnow() reads.  The
\* clock does not go back, and need not have moved since the previous request
\* read it: the stored datetime has millisecond resolution.
upload_media(op, link_field, link_id, media_type, file) ==
    \E now \in clock..MaxClock :
        LET doc == FromPairs({<<link_field, link_id>>,
                              <<"media_type", media_type>>,
                              <<"filename", file.filename>>,
                              <<"content_type", file.content_type>>,
                              <<"content", file.content>>,
                              <<"uploaded_at", now>>,
                              <<"_id", NewOid(nextOid + 1)>>})
        IN  /\ media' = Append(media, doc)
            /\ clock' = now
            /\ nextOid' = nextOid + 1
            /\ Respond(op, "media", link_id, MultipartRequest(file), 200,
                       JDict(FromPairs({<<k_id, JStr(str(doc["_id"]))>>})), TRUE)
            /\ UNCHANGED <<store, written, deleted>>

\* an upload route: the check of the declared content type, then upload_media
Upload(op, link_field, link_id, media_type, prefix, file) ==
    IF Blocked(MultipartRequest(file))
    THEN /\ Respond(op, "media", link_id, MultipartRequest(file), 400, JNull, FALSE)
         /\ UNCHANGED <<store, media, nextOid, clock, written, deleted>>
    ELSE IF \/ file.content_type.t = "null"
            \/ file.content_type.v = <<>>
            \/ ~startswith(file.content_type.v, prefix)
    THEN /\ Respond(op, "media", link_id, MultipartRequest(file), 400, JNull, TRUE)
         /\ UNCHANGED <<store, media, nextOid, clock, written, deleted>>
    ELSE upload_media(op, link_field, link_id, media_type, file)

\* stream_latest_media: find_one sorted by uploaded_at descending.  Among
\* documents with the same uploaded_at the database may return any.
stream_latest_media(op, link_field, link_id, media_type) ==
    /\ ~Blocked(Bare("GET"))
    /\ LET found == Matching(link_field, link_id, media_type)
       IN  IF found = {}
           THEN Respond(op, "media", link_id, Bare("GET"), 404, JNull, TRUE)
           ELSE \E i \in found :
                   /\ \A j \in found : media[j].uploaded_at <= media[i].uploaded_at
                   /\ Respond(op, "media", link_id, Bare("GET"), 200,
                              [t |-> "stream",
                               v |-> [content |-> media[i].content,
                                      media_type |-> media[i].content_type,
                                      filename |-> media[i].filename]],
                              TRUE)
    /\ UNCHANGED <<store, media, nextOid, clock, written, deleted>>

image_prefix == <<"i","m","a","g","e","/">>
video_prefix == <<"v","i","d","e","o","/">>

upload_event_poster(event_id, file) ==
    Upload("upload_event_poster", "event_id", event_id, "event_poster", image_prefix, file)

upload_promo_video(event_id, file) ==
    Upload("upload_promo_video", "event_id", event_id, "promo_video", video_prefix, file)

upload_venue_photo(venue_id, file) ==
    Upload("upload_venue_photo", "venue_id", venue_id, "venue_photo", image_prefix, file)

get_event_poster(event_id) ==
    stream_latest_media("get_event_poster", "event_id", event_id, "event_poster")

get_promo_video(event_id) ==
    stream_latest_media("get_promo_video", "event_id", event_id, "promo_video")

get_venue_photo(venue_id) ==
    stream_latest_media("get_venue_photo", "venue_id", venue_id, "venue_photo")

-----------------------------------------------------------------------------
(* The state after start-up: empty collections, no request served yet.     *)

NoRequest ==
    [op |-> "none", coll |-> "none", id |-> <<>>, req |-> Bare("GET"),
     status |-> 0, body |-> JNull, reached |-> FALSE]

Init ==
    /\ store = [c \in Collections |-> <<>>]
    /\ media = <<>>
    /\ nextOid = 0
    /\ clock = 0
    /\ last = NoRequest
    /\ written = <<>>
    /\ deleted = {}

NextCrud ==
    \/ \E req \in CrudRequests["events"]["POST"] : nextOid < MaxOids /\ create_event(req)
    \/ list_events
    \/ \E id \in CrudIds : get_event(id)
    \/ \E id \in WriteIds, req \in CrudRequests["events"]["PUT"] : update_event(id, req)
    \/ \E id \in WriteIds : delete_event(id)
    \/ \E req \in CrudRequests["attendees"]["POST"] : nextOid < MaxOids /\ create_attendee(req)
    \/ list_attendees
    \/ \E id \in CrudIds : get_attendee(id)
    \/ \E id \in WriteIds, req \in CrudRequests["attendees"]["PUT"] : update_attendee(id, req)
    \/ \E id \in WriteIds : delete_attendee(id)
    \/ \E req \in CrudRequests["venues"]["POST"] : nextOid < MaxOids /\ create_venue(req)
    \/ list_venues
    \/ \E id \in CrudIds : get_venue(id)
    \/ \E id \in WriteIds, req \in CrudRequests["venues"]["PUT"] : update_venue(id, req)
    \/ \E id \in WriteIds : delete_venue(id)
    \/ \E req \in CrudRequests["booking"]["POST"] : nextOid < MaxOids /\ create_booking(req)
    \/ list_bookings
    \/ \E id \in CrudIds : get_booking(id)
    \/ \E id \in WriteIds, req \in CrudRequests["booking"]["PUT"] : update_booking(id, req)
    \/ \E id \in WriteIds : delete_booking(id)

\* the entity handlers
Spec == Init /\ [][NextCrud]_vars

\* a request received and not yet served
Pending(c, id_str, req) ==
    [op |-> "pending", coll |-> c, id |-> id_str, req |-> req,
     status |-> 0, body |-> JNull, reached |-> FALSE]

\* the state after POST /events of EntityA on the empty database
OneEvent ==
    /\ store = [c \in Collections |->
                  IF c = "events"
                  THEN insert_one(<<>>, model_dump(Event, EntityA("events")), 1)
                  ELSE <<>>]
    /\ media = <<>>
    /\ nextOid = 1
    /\ clock = 0
    /\ written = FromPairs({<<str(NewOid(1)),
                              [coll |-> "events", payload |-> EntityA("events"), via |-> "create"]>>})
    /\ deleted = {}

\* one event stored, and one JSON request for /events/<its id> received
InitGuard ==
    /\ OneEvent
    /\ \E req \in GuardRequests : last = Pending("events", str(NewOid(1)), req)

NextGuard ==
    \/ last.op = "pending" /\ last.req.method = "POST" /\ create_event(last.req)
    \/ last.op = "pending" /\ last.req.method = "PUT" /\ update_event(last.id, last.req)
    \/ last.op = "pending" /\ last.req.method = "PATCH" /\ NoRoute(last.coll, last.id, last.req)

\* the middleware in front of the JSON routes
SpecGuard == InitGuard /\ [][NextGuard]_vars

\* collection c after n POSTs of EntityA(c) on the empty database
Inserted(c, n) ==
    [i \in 1..n |-> insert_one(<<>>, model_dump(Schema[c], EntityA(c)), i)[1]]

\* one collection holds ListCap - 1 entities, created one after the other
InitList ==
    \E c \in Collections :
        /\ store = [d \in Collections |-> IF d = c THEN Inserted(c, ListCap - 1) ELSE <<>>]
        /\ media = <<>>
        /\ nextOid = ListCap - 1
        /\ clock = 0
        /\ last = NoRequest
        /\ written = [id \in {str(NewOid(n)) : n \in 1..(ListCap - 1)} |->
                          [coll |-> c, payload |-> EntityA(c), via |-> "create"]]
        /\ deleted = {}

NextList ==
    \/ nextOid < ListCap + MaxOver
          /\ create_event(JsonRequest("POST", application_json, EntityA("events")))
    \/ nextOid < ListCap + MaxOver
          /\ create_attendee(JsonRequest("POST", application_json, EntityA("attendees")))
    \/ nextOid < ListCap + MaxOver
          /\ create_venue(JsonRequest("POST", application_json, EntityA("venues")))
    \/ nextOid < ListCap + MaxOver
          /\ create_booking(JsonRequest("POST", application_json, EntityA("booking")))
    \/ list_events
    \/ list_attendees
    \/ list_venues
    \/ list_bookings
    \/ \E id \in ListIds : delete_event(id)
    \/ \E id \in ListIds : delete_attendee(id)
    \/ \E id \in ListIds : delete_venue(id)
    \/ \E id \in ListIds : delete_booking(id)

\* the list handlers on collections around the cap
SpecList == InitList /\ [][NextList]_vars

NextMedia ==
    \/ \E id \in OwnerIds, f \in Files : Len(media) < MaxMedia /\ upload_event_poster(id, f)
    \/ \E id \in OwnerIds, f \in Files : Len(media) < MaxMedia /\ upload_promo_video(id, f)
    \/ \E id \in OwnerIds, f \in Files : Len(media) < MaxMedia /\ upload_venue_photo(id, f)
    \/ \E id \in OwnerIds : get_event_poster(id)
    \/ \E id \in OwnerIds : get_promo_video(id)
    \/ \E id \in OwnerIds : get_venue_photo(id)

\* the media handlers
SpecMedia == Init /\ [][NextMedia]_vars

-----------------------------------------------------------------------------
(* Properties of the entity handlers, checked under Spec.                  *)

\* the document a get must return for an entity written as payload under id:
\* every declared field with the payload's value (None for an omitted
\* Optional field), and the id as the only other field
Returns(body, c, payload, id) ==
    /\ body.t = "dict"
    /\ DOMAIN body.v = (DOMAIN Schema[c]) \cup {k_id}
    /\ \A f \in DOMAIN Schema[c] :
          body.v[f] = IF f \in DOMAIN payload.v THEN payload.v[f] ELSE JNull
    /\ body.v[k_id] = JStr(id)

\* C1: a get on the id that create returned, with no update or delete of that
\* id in between, answers 200 with the created entity's fields and, as the
\* only other field, the id as the same string create returned.
C1_CreateGetRoundTrip ==
    \A id \in DOMAIN written :
        (/\ written[id].via = "create"
         /\ last.op = "get"
         /\ last.coll = written[id].coll
         /\ last.id = id)
        => /\ last.status = 200
           /\ Returns(last.body, last.coll, written[id].payload, id)

C1_Witness ==
    \E id \in DOMAIN written :
        /\ written[id].via = "create"
        /\ last.op = "get"
        /\ last.coll = "attendees"
        /\ written[id].coll = "attendees"
        /\ last.id = id
        /\ k_phone \notin DOMAIN written[id].payload.v
        /\ last.status = 200

\* a 24-character hex identifier
IsHex24(s) ==
    /\ Len(s) = 24
    /\ \A i \in 1..Len(s) :
          s[i] \in {"0","1","2","3","4","5","6","7","8","9",
                    "a","b","c","d","e","f","A","B","C","D","E","F"}

\* id_str with its letters in lower case
LowerCase(id_str) ==
    [k \in DOMAIN id_str |->
        IF id_str[k] \in Range(UpperLetters)
        THEN LowerLetters[CHOOSE n \in DOMAIN UpperLetters : UpperLetters[n] = id_str[k]]
        ELSE id_str[k]]

\* id_str is a 24-character hex identifier and names document doc
Names(id_str, doc) == IsHex24(id_str) /\ str_id(doc[k_id]) = LowerCase(id_str)

\* collection c holds a document that id_str names
Holds(colls, c, id_str) == \E i \in DOMAIN colls[c] : Names(id_str, colls[c][i])

\* C2 as stated: an update (of an entity) on an id that names no document
\* always answers 404.
C2_UpdateMissingAlways404 ==
    (last.op = "update" /\ last.reached /\ ~Holds(store, last.coll, last.id))
    => last.status = 404

\* C2, amended: an update on a well-formed id that names no document answers
\* 404, on a malformed id 400, and neither creates or changes a document; an
\* update on an existing id answers 200 and leaves that document with exactly
\* the payload's fields (None for an omitted Optional field) under its old
\* _id, every other document as it was; and a following get returns exactly
\* those fields.
C2_UpdateStep ==
    (last'.op = "update" /\ last'.reached)
    => LET c == last'.coll
           id == last'.id
       IN  /\ ~IsHex24(id) => last'.status = 400 /\ store' = store
           /\ (IsHex24(id) /\ ~Holds(store, c, id)) => last'.status = 404 /\ store' = store
           /\ Holds(store, c, id) =>
                 /\ last'.status = 200
                 /\ \A d \in Collections \ {c} : store'[d] = store[d]
                 /\ Len(store'[c]) = Len(store[c])
                 /\ \A i \in DOMAIN store[c] :
                       IF Names(id, store[c][i])
                       THEN Returns(to_json(store'[c][i]), c, last'.req.body.json,
                                    str_id(store[c][i][k_id]))
                       ELSE store'[c][i] = store[c][i]

C2_GetAfterUpdate ==
    \A id \in DOMAIN written :
        (/\ written[id].via = "update"
         /\ last.op = "get"
         /\ last.coll = written[id].coll
         /\ last.id = id)
        => /\ last.status = 200
           /\ Returns(last.body, last.coll, written[id].payload, id)

C2_UpdateReplaces == [][C2_UpdateStep]_vars /\ []C2_GetAfterUpdate

\* a get after an update that omitted phone on an attendee that had one
C2_Witness ==
    \E id \in DOMAIN written :
        /\ written[id].via = "update"
        /\ written[id].coll = "attendees"
        /\ k_phone \notin DOMAIN written[id].payload.v
        /\ last.op = "get"
        /\ last.coll = "attendees"
        /\ last.id = id
        /\ last.status = 200
        /\ last.body.v[k_phone] = JNull

\* C3: once a delete of an id has succeeded, every later delete, get and
\* update of that id answers 404, and no operation brings the document back.
C3_DeletedStep ==
    (/\ last'.op \in {"get", "update", "delete"}
     /\ last'.reached
     /\ IsHex24(last'.id)
     /\ <<last'.coll, ObjectId(last'.id)>> \in deleted)
    => last'.status = 404

C3_DeletedGone ==
    \A p \in deleted : \A i \in DOMAIN store[p[1]] : store[p[1]][i][k_id] # JOid(p[2])

C3_DeleteIdempotent == [][C3_DeletedStep]_vars /\ []C3_DeletedGone

\* an update of an id deleted earlier, answered 404, while the collection
\* still holds another document
C3_Witness ==
    /\ last.op = "update"
    /\ last.reached
    /\ last.status = 404
    /\ IsHex24(last.id)
    /\ <<last.coll, ObjectId(last.id)>> \in deleted
    /\ Len(store[last.coll]) > 0

\* C8: a get with an id that is not a 24-character hex identifier answers
\* 400, a get with a well-formed id that the collection does not hold answers
\* 404, and neither changes any collection.
C8_GetStep ==
    last'.op = "get"
    => /\ ~IsHex24(last'.id) => last'.status = 400
       /\ (IsHex24(last'.id) /\ ~Holds(store, last'.coll, last'.id)) => last'.status = 404
       /\ store' = store
       /\ media' = media

C8_GetIdentifierErrors == [][C8_GetStep]_vars

\* a get with a 24-character id that is not hex, on a collection that holds documents
C8_Witness ==
    /\ last.op = "get"
    /\ Len(last.id) = 24
    /\ ~IsHex24(last.id)
    /\ last.status = 400
    /\ Len(store[last.coll]) > 0

\* C9: every stored entity carries an identifier the server generated,
\* distinct from that of every other entity of its collection, and no update
\* changes the identifier of an existing entity.
C9_UniqueServerIds ==
    \A c \in Collections :
        /\ \A i \in DOMAIN store[c] :
              \E n \in 1..nextOid : store[c][i][k_id] = JOid(NewOid(n))
        /\ \A i, j \in DOMAIN store[c] :
              i # j => store[c][i][k_id] # store[c][j][k_id]

C9_UpdateKeepsId ==
    last'.op = "update"
    => \A c \in Collections :
          /\ Len(store'[c]) = Len(store[c])
          /\ \A i \in DOMAIN store[c] : store'[c][i][k_id] = store[c][i][k_id]

C9_IdentifierInvariant == []C9_UniqueServerIds /\ [][C9_UpdateKeepsId]_vars

\* an accepted update whose payload carries an _id, in a collection of two entities
C9_Witness ==
    /\ last.op = "update"
    /\ last.status = 200
    /\ k_id \in DOMAIN last.req.body.json.v
    /\ Len(store[last.coll]) = 2

-----------------------------------------------------------------------------
(* Claims about the middleware (SpecGuard).                                *)

\* some character of s is one of cs
HasChar(s, cs) == \E i \in DOMAIN s : s[i] \in cs

\* s contains the two characters a b next to each other
HasPair(s, a, b) == \E i \in 1..(Len(s) - 1) : s[i] = a /\ s[i + 1] = b

\* a string value the guard is said to reject
TaintedText(s) ==
    \/ HasChar(s, {"$", "{", "}", "[", "]", ";"})
    \/ HasPair(s, "-", "-")
    \/ HasPair(s, "/", "*")
    \/ HasPair(s, "*", "/")

RECURSIVE Keys(_)
\* the mapping keys of x, at any depth of objects and arrays
Keys(x) ==
    CASE x.t = "dict" -> (DOMAIN x.v) \cup UNION {Keys(x.v[k]) : k \in DOMAIN x.v}
      [] x.t = "list" -> UNION {Keys(x.v[i]) : i \in DOMAIN x.v}
      [] OTHER -> {}

RECURSIVE Texts(_)
\* the string values of x, at any depth of objects and arrays
Texts(x) ==
    CASE x.t = "dict" -> UNION {Texts(x.v[k]) : k \in DOMAIN x.v}
      [] x.t = "list" -> UNION {Texts(x.v[i]) : i \in DOMAIN x.v}
      [] x.t = "str" -> {x.v}
      [] OTHER -> {}

SomeKey(x, P(_)) == \E k \in Keys(x) : P(k)

SomeText(x, P(_)) == \E v \in Texts(x) : P(v)

DollarOrDot(k) == HasChar(k, {"$", "."})

\* a POST, PUT or PATCH with a JSON content type and a body that parses
GuardedJson(req) ==
    /\ req.method \in {"POST", "PUT", "PATCH"}
    /\ Contains(req.content_type, application_json)
    /\ req.body.raw = "json"

Served(l) == l.op \in {"create", "update", "patch"}

\* C4: a POST, PUT or PATCH with a JSON content type whose parsed body holds,
\* at any depth of objects and arrays, a key containing $ or . or a string
\* value containing $ { } [ ] ; -- /* or */ is answered 400, the route
\* handler is not invoked, and no collection changes.
C4_GuardStep ==
    ( /\ Served(last')
      /\ GuardedJson(last'.req)
      /\ \/ SomeKey(last'.req.body.json, DollarOrDot)
         \/ SomeText(last'.req.body.json, TaintedText) )
    => /\ last'.status = 400
       /\ ~last'.reached
       /\ store' = store
       /\ media' = media

-----------------------------------------------------------------------------
(* Claims about the media handlers (SpecMedia).                            *)

UploadOps == {"upload_event_poster", "upload_promo_video", "upload_venue_photo"}

GetMediaOps == {"get_event_poster", "get_promo_video", "get_venue_photo"}

\* the category an operation writes or reads, and the field naming its owner
CategoryOf(op) ==
    CASE op \in {"upload_event_poster", "get_event_poster"} -> "event_poster"
      [] op \in {"upload_promo_video", "get_promo_video"} -> "promo_video"
      [] op \in {"upload_venue_photo", "get_venue_photo"} -> "venue_photo"

OwnerFieldOf(op) == IF CategoryOf(op) = "venue_photo" THEN "venue_id" ELSE "event_id"

RequiredPrefix(op) == IF CategoryOf(op) = "promo_video" THEN <<"v","i","d","e","o","/">>
                                                        ELSE <<"i","m","a","g","e","/">>

\* the accepted uploads for (owner, category), in the order they were made
UploadsFor(owner, category, field) ==
    {i \in DOMAIN media :
        /\ field \in DOMAIN media[i]
        /\ media[i][field] = owner
        /\ media[i].media_type = category}

Newest(S) == CHOOSE i \in S : \A j \in S : j <= i

\* C6 as stated: a GET of an (owner, category) that has accepted uploads
\* returns the bytes and the content type of the upload made last.
C6_LatestIsLastUploaded ==
    LET ups == UploadsFor(last.id, CategoryOf(last.op), OwnerFieldOf(last.op))
    IN  (last.op \in GetMediaOps /\ ups # {})
        => /\ last.status = 200
           /\ last.body.v.content = media[Newest(ups)].content
           /\ last.body.v.media_type = media[Newest(ups)].content_type

\* C7: an upload whose declared content type is missing or does not begin
\* with the prefix of its category (image/ for posters and venue photos,
\* video/ for promo videos) is answered 400 and leaves the attachments as
\* they were; an upload whose content type begins with the prefix is
\* answered 200 with the id of one new attachment.
C7_UploadStep ==
    last'.op \in UploadOps
    => LET ct == last'.req.body.file.content_type
           prefix == RequiredPrefix(last'.op)
       IN  IF \/ ct.t = "null"
              \/ Len(ct.v) < Len(prefix)
              \/ SubSeq(ct.v, 1, Len(prefix)) # prefix
           THEN /\ last'.status = 400
                /\ media' = media
           ELSE /\ last'.status = 200
                /\ Len(media') = Len(media) + 1
                /\ SubSeq(media', 1, Len(media)) = media
                /\ last'.body = JDict(FromPairs({<<k_id, JStr(str(media'[Len(media')]["_id"]))>>}))
                /\ \A i \in DOMAIN media : media[i]["_id"] # media'[Len(media')]["_id"]
                /\ media'[Len(media')].media_type = CategoryOf(last'.op)
                /\ media'[Len(media')][OwnerFieldOf(last'.op)] = last'.id

C7_MediaTypeValidation == [][C7_UploadStep]_vars

\* a promo-video upload declared x-video/mp4 was answered 400 while an
\* attachment was already stored
C7_Witness ==
    /\ last.op = "upload_promo_video"
    /\ last.status = 400
    /\ last.req.body.file.content_type = JStr(x_video_mp4)
    /\ Len(media) > 0

-----------------------------------------------------------------------------
(* Claims about the list handlers (SpecList).                              *)

\* a stored document as the API returns it
Rendered(doc) == JDict([doc EXCEPT ![k_id] = JStr(str(@.v))])

\* C10: a list returns at most 100 documents however many the collection
\* holds, all of them when it holds 100 or fewer, and every returned
\* document is a document stored in the collection.
C10_ListCap ==
    last.op = "list"
    => LET docs == last.body.v
           coll == store[last.coll]
       IN  /\ last.status = 200
           /\ Len(docs) <= 100
           /\ Len(coll) <= 100
                 => /\ Len(docs) = Len(coll)
                    /\ \A j \in DOMAIN coll : \E i \in DOMAIN docs : docs[i] = Rendered(coll[j])
           /\ \A i \in DOMAIN docs : \E j \in DOMAIN coll : docs[i] = Rendered(coll[j])

\* a list of a collection that holds more than 100 documents returned 100
C10_Witness ==
    /\ last.op = "list"
    /\ Len(store[last.coll]) > 100
    /\ Len(last.body.v) = 100

====
